---- MODULE Spec2Model ----
(***************************************************************************)
(* A model of jackmeter (src/jack_meter.c), the console peak meter for     *)
(* JACK.  Six parts of the program are modelled, each with its own         *)
(* specification over the shared variables:                                *)
(*   SpecScale  iec_scale, the dB -> width mapping (a pure function)       *)
(*   SpecPeak   peak[], written by process_peak (JACK thread) and read and *)
(*              reset by read_peak (main thread)                           *)
(*   SpecMeter  display_meter, the peak-hold state dpeak[] / dtime[] and   *)
(*              the cells it prints, as main calls it for each port        *)
(*   SpecDraw   display_scale, the writes of its labels and tick glyphs    *)
(*   SpecRate   time_handler (SIGALRM) against the wait of main's loop     *)
(*   SpecLife   main's start-up, its exits and the atexit handler cleanup  *)
(* A part that a specification does not exercise is parked in its start    *)
(* state.                                                                  *)
(***************************************************************************)
EXTENDS Integers, Sequences, FiniteSets, TLC

VARIABLES
    argDb,      \* iec_scale: the argument db of the last call (see DbDen)
    argSize,    \* iec_scale: the argument size of the last call
    result,     \* iec_scale: the value the last call returned
    peak,       \* float peak[MAX_CHANNELS]
    input_port, \* input_port[i] # NULL
    cbPc,       \* process_peak: "idle", "port", "frame" or "store"
    inPortNumber, \* process_peak: its loop variable inPortNumber
    nframes,    \* process_peak: the argument nframes
    cbI,        \* process_peak: its loop variable i
    s,          \* process_peak: the local s of the sample being stored
    rdPc,       \* read_peak: "idle" or "reset" (tmp loaded, peak not yet reset)
    rdPort,     \* read_peak: the argument inPortNumber (main's loop variable)
    tmp,        \* read_peak: the local tmp
    recMax,     \* history: per port, the largest magnitude recorded so far
    retMax,     \* history: per port, the largest value read_peak returned so far
    since,      \* history: per port, the largest magnitude recorded since the last reset
    clean,      \* history: per port, no record overlapped a read_peak since the last reset
    lastRet,    \* history: the last return of read_peak
    width,      \* main's console_width as passed to display_meter
    dpeak,      \* int dpeak[MAX_CHANNELS]
    dtime,      \* int dtime[MAX_CHANNELS]
    size,       \* display_meter: the local size of the last call, per port
    decay_len,  \* long int decay_len
    rate,       \* int rate
    userRate,   \* int userRate
    time_to_print, \* volatile unsigned char time_to_print
    sleepTimeUs, \* unsigned int sleepTimeUs
    timer,      \* the interval given to the last ualarm call (0: none yet)
    pc,         \* main's position: "args", "setup", "render", "test",
                \* "usleep_call", "usleep", "clear"; in SpecLife also
                \* "register", "activate", "connect", "exit", "cleanup",
                \* "terminated"
    fired,      \* history: time_handler has run
    lastFiring, \* history: the last run of time_handler
    cycle,      \* history: the render cycle main began after the last run of
                \* time_handler: "none", "rendering" or "finished"
    client,     \* jack_client_t *client: "none" (NULL), "open" or "closed"
    conn,       \* per port, the peer ports JACK has connected to it
    args,       \* the port names of argv not yet handled (argv[optind..])
    portTo,     \* main's portTo
    regI,       \* main's loop variable i of the registration loop
    atexitSet,  \* atexit( cleanup ) has been called
    cleanPort,  \* cleanup: its loop variable inPortNumber
    cleanupRuns, \* history: the number of times cleanup has been entered
    closedWithConn, \* history: jack_client_close was called with a port still connected
    sinceRaise, \* history: per port, the calls of display_meter since dpeak was last raised
    raisedTo,   \* history: per port, the value dpeak was last raised to (-1: none)
    meterPort,  \* main: inPortNumber, the variable of the for loop of line 471
    db,         \* main: the local float db of the loop body
    out,        \* display_meter: the cells its last call printed after "\r"
    sameFor,    \* history: per port, the last calls of display_meter in a row
                \* that had the same size (0: no call yet)
    scaleWrites, \* display_scale: the indices of scale[] its memcpy calls wrote
    lineWrites  \* display_scale: the indices of line[] its marks loop wrote

scaleVars == <<argDb, argSize, result>>

peakVars == <<peak, input_port, cbPc, inPortNumber, nframes, cbI, s, rdPc, rdPort, tmp,
              recMax, retMax, since, clean, lastRet>>

meterVars == <<width, dpeak, dtime, size, sinceRaise, raisedTo, meterPort, db, out,
               sameFor,
               scaleWrites, lineWrites>>

lifeVars == <<client, conn, args, portTo, regI, atexitSet, cleanPort, cleanupRuns,
              closedWithConn>>

rateVars == <<decay_len, rate, userRate, time_to_print, sleepTimeUs, timer, pc,
              fired, lastFiring, cycle>>

(***************************************************************************)
(* Numbers.  A dB value is a binary32 float in the code.  The model holds  *)
(* it as an integer count of 1/DbDen dB, DbDen a power of two, so that     *)
(* every modelled value is exactly representable; minus infinity (the      *)
(* log10f of a zero peak) is the value NegInf, below every finite one.     *)
(* iec_scale is computed in exact arithmetic; on the modelled grid and     *)
(* widths the binary32 evaluation gives the same integers (it does not     *)
(* for every input: db = -24, size = 150 gives 62 in binary32, 63 exact).  *)
(***************************************************************************)
DbBits == 1

DbDen == 2 ^ DbBits

DbMargin == 2

MaxWidth == 6

console_width == 79

NegInf == -1000000

Db(n) == n * DbDen

DbGrid == (Db(-70 - DbMargin) .. Db(DbMargin)) \cup {NegInf}

Widths == (0 .. MaxWidth) \cup {console_width}

(***************************************************************************)
(* iec_scale.  def is held in units of 1/(4*DbDen) percent, the common     *)
(* denominator of the slopes 0.25, 0.5, 0.75, 1.5, 2.0, 2.5 on the grid.   *)
(***************************************************************************)
Deflection(d) ==
    IF d < Db(-70) THEN 0
    ELSE IF d < Db(-60) THEN (d + Db(70)) * 1
    ELSE IF d < Db(-50) THEN (d + Db(60)) * 2 + 10 * DbDen
    ELSE IF d < Db(-40) THEN (d + Db(50)) * 3 + 30 * DbDen
    ELSE IF d < Db(-30) THEN (d + Db(40)) * 6 + 60 * DbDen
    ELSE IF d < Db(-20) THEN (d + Db(30)) * 8 + 120 * DbDen
    ELSE IF d < Db(0)   THEN (d + Db(20)) * 10 + 200 * DbDen
    ELSE 400 * DbDen

\* (int) x: the conversion truncates toward zero
Trunc(num, den) ==
    IF num >= 0 THEN num \div den ELSE -((-num) \div den)

\* mutants of iec_scale: no band below -70; the offset of the band from -50;
\* the slope of the band from -20
iec_scale_noclamp(d, w) ==
    Trunc((IF d < Db(-60) THEN (d + Db(70)) * 1 ELSE Deflection(d)) * w, 400 * DbDen)

iec_scale_offset(d, w) ==
    Trunc((IF d >= Db(-50) /\ d < Db(-40) THEN (d + Db(50)) * 3 + 10 * DbDen
           ELSE Deflection(d)) * w, 400 * DbDen)

iec_scale_slope(d, w) ==
    Trunc((IF d >= Db(-20) /\ d < Db(0) THEN (d + Db(20)) * 8 + 200 * DbDen
           ELSE Deflection(d)) * w, 400 * DbDen)

iec_scale(d, w) ==
    Trunc(Deflection(d) * w, 400 * DbDen)

ScaleInit ==
    /\ argDb = NegInf
    /\ argSize = 0
    /\ result = 0

\* a call with another db and the same size
CallScaleDb(d) ==
    /\ argDb' = d
    /\ argSize' = argSize
    /\ result' = iec_scale(d, argSize)

\* a call with another size and the same db
CallScaleSize(w) ==
    /\ argDb' = argDb
    /\ argSize' = w
    /\ result' = iec_scale(argDb, w)

(***************************************************************************)
(* peak[]: process_peak runs on JACK's thread, read_peak on the main       *)
(* thread, and neither synchronises.  A sample value is an integer (a      *)
(* quantised float); the accesses to peak[i] are modelled one load and one *)
(* store at a time, which are the units a build can interleave.  A local   *)
(* (s, tmp, i, nframes) is 0 while it is out of scope.                     *)
(***************************************************************************)
channels == 1

MAX_CHANNELS == 16

MaxSample == 2

MaxFrames == 2

Ports == 0 .. (channels - 1)

Samples == (-MaxSample) .. MaxSample

fabs(x) == IF x < 0 THEN -x ELSE x

Max(a, b) == IF a >= b THEN a ELSE b

\* the globals and the two threads before any call
PeakIdle ==
    /\ peak = [i \in Ports |-> 0]
    /\ cbPc = "idle"
    /\ inPortNumber = 0
    /\ nframes = 0
    /\ cbI = 0
    /\ s = 0
    /\ rdPc = "idle"
    /\ rdPort = 0
    /\ tmp = 0
    /\ recMax = [i \in Ports |-> 0]
    /\ retMax = [i \in Ports |-> 0]
    /\ since = [i \in Ports |-> 0]
    /\ clean = [i \in Ports |-> TRUE]
    /\ lastRet = [port |-> 0, val |-> 0, expect |-> 0, clean |-> FALSE]

\* JACK calls process_peak only once main has registered every port
\* (lines 415-430)
PeakInit ==
    /\ PeakIdle
    /\ input_port = [i \in Ports |-> TRUE]

\* read_peak is between its load and its store of peak[i]
MidRead(i) == rdPc = "reset" /\ rdPort = i

\* process_peak is between its load and its store of peak[i]
MidRecord(i) == cbPc = "store" /\ inPortNumber = i

\* history: a record of magnitude m on port i has completed
Recorded(i, m) ==
    /\ recMax' = [recMax EXCEPT ![i] = Max(@, m)]
    /\ since' = [since EXCEPT ![i] = Max(@, m)]
    /\ clean' = [clean EXCEPT ![i] = @ /\ ~MidRead(i)]

\* JACK calls process_peak(nframes, arg)
process_peak(n) ==
    /\ cbPc = "idle"
    /\ cbPc' = "port"
    /\ inPortNumber' = 0
    /\ nframes' = n
    /\ UNCHANGED <<peak, input_port, cbI, s, rdPc, rdPort, tmp,
                   recMax, retMax, since, clean, lastRet>>

\* for (;inPortNumber<channels;inPortNumber++) { if (input_port[..] == NULL) continue;
process_peak_port ==
    /\ cbPc = "port"
    /\ IF inPortNumber >= channels
       THEN cbPc' = "idle" /\ inPortNumber' = 0 /\ nframes' = 0 /\ UNCHANGED cbI
       ELSE IF ~input_port[inPortNumber]
            THEN inPortNumber' = inPortNumber + 1 /\ UNCHANGED <<cbPc, cbI, nframes>>
            ELSE cbPc' = "frame" /\ cbI' = 0 /\ UNCHANGED <<inPortNumber, nframes>>
    /\ UNCHANGED <<peak, input_port, s, rdPc, rdPort, tmp,
                   recMax, retMax, since, clean, lastRet>>

\* mutant: the sample is stored without the comparison with peak[..]
process_peak_frame_nocmp(x) ==
    /\ cbPc = "frame"
    /\ IF cbI >= nframes
       THEN /\ cbPc' = "port"
            /\ inPortNumber' = inPortNumber + 1
            /\ cbI' = 0
            /\ UNCHANGED <<s, recMax, since, clean>>
       ELSE /\ cbPc' = "store"
            /\ s' = fabs(x)
            /\ clean' = [clean EXCEPT ![inPortNumber] = @ /\ ~MidRead(inPortNumber)]
            /\ UNCHANGED <<cbI, inPortNumber, recMax, since>>
    /\ UNCHANGED <<peak, input_port, nframes, rdPc, rdPort, tmp, retMax, lastRet>>

\* for (i = 0; i < nframes; i++) { const float s = fabs(in[i]); if (s > peak[..])
\* x is in[i]; the load of peak[inPortNumber] and the comparison
process_peak_frame(x) ==
    /\ cbPc = "frame"
    /\ IF cbI >= nframes
       THEN /\ cbPc' = "port"
            /\ inPortNumber' = inPortNumber + 1
            /\ cbI' = 0
            /\ UNCHANGED <<s, recMax, since, clean>>
       ELSE /\ IF fabs(x) > peak[inPortNumber]
               THEN /\ cbPc' = "store"
                    /\ s' = fabs(x)
                    /\ clean' = [clean EXCEPT ![inPortNumber] = @ /\ ~MidRead(inPortNumber)]
                    /\ UNCHANGED <<cbI, inPortNumber, recMax, since>>
               ELSE /\ cbI' = cbI + 1
                    /\ Recorded(inPortNumber, fabs(x))
                    /\ UNCHANGED <<cbPc, inPortNumber, s>>
    /\ UNCHANGED <<peak, input_port, nframes, rdPc, rdPort, tmp, retMax, lastRet>>

\* peak[inPortNumber] = s;
process_peak_store ==
    /\ cbPc = "store"
    /\ peak' = [peak EXCEPT ![inPortNumber] = s]
    /\ cbPc' = "frame"
    /\ cbI' = cbI + 1
    /\ s' = 0
    /\ Recorded(inPortNumber, s)
    /\ UNCHANGED <<input_port, inPortNumber, nframes, rdPc, rdPort, tmp,
                   retMax, lastRet>>

\* history: read_peak returns v for port i
Returned(i, v) ==
    /\ retMax' = [retMax EXCEPT ![i] = Max(@, v)]
    /\ lastRet' = [port |-> i, val |-> v, expect |-> since[i],
                   clean |-> clean[i] /\ ~MidRecord(i)]
    /\ since' = [since EXCEPT ![i] = 0]
    /\ clean' = [clean EXCEPT ![i] = ~MidRecord(i)]

\* main calls read_peak(inPortNumber): float tmp = peak[inPortNumber];
read_peak ==
    /\ rdPc = "idle"
    /\ IF rdPort >= MAX_CHANNELS
       THEN /\ Returned(rdPort, 0)
            /\ rdPort' = (rdPort + 1) % channels
            /\ UNCHANGED <<rdPc, tmp>>
       ELSE /\ tmp' = peak[rdPort]
            /\ rdPc' = "reset"
            /\ clean' = [clean EXCEPT ![rdPort] = @ /\ ~MidRecord(rdPort)]
            /\ UNCHANGED <<rdPort, retMax, since, lastRet>>
    /\ UNCHANGED <<peak, input_port, cbPc, inPortNumber, nframes, cbI, s, recMax>>

\* mutant: the register is not reset
read_peak_reset_keep ==
    /\ rdPc = "reset"
    /\ rdPc' = "idle"
    /\ rdPort' = (rdPort + 1) % channels
    /\ tmp' = 0
    /\ Returned(rdPort, tmp)
    /\ UNCHANGED <<peak, input_port, cbPc, inPortNumber, nframes, cbI, s, recMax>>

\* peak[inPortNumber] = 0.0f; return tmp;  main's loop then moves to the next port
read_peak_reset ==
    /\ rdPc = "reset"
    /\ peak' = [peak EXCEPT ![rdPort] = 0]
    /\ rdPc' = "idle"
    /\ rdPort' = (rdPort + 1) % channels
    /\ tmp' = 0
    /\ Returned(rdPort, tmp)
    /\ UNCHANGED <<input_port, cbPc, inPortNumber, nframes, cbI, s, recMax>>

(***************************************************************************)
(* rate, decay_len and time_to_print: time_handler runs as the handler of  *)
(* SIGALRM, armed by ualarm, at any point of main, and runs to its end.    *)
(* main's loop is modelled with the drawing of one cycle as one step; what *)
(* the drawing does to peak[] and dpeak[] is in SpecPeak and SpecMeter.    *)
(***************************************************************************)
MaxRate == 3

DefaultRate == 8

UserRates == (1 .. MaxRate) \cup {DefaultRate}

\* (long int)(1.6f / (1.0f/rate)): the binary32 quotient truncated; it is
\* the floor of 1.6 * rate for every rate from 1 to 40
DecayLen(r) == (16 * r) \div 10

Min(a, b) == IF a <= b THEN a ELSE b

\* 1000000.0f/rate converted to unsigned int: the binary32 quotient
\* truncated, the integer quotient for every rate from 1 to 40
SleepTime(r) == 1000000 \div r

\* history of the part, in its start state
RateHistoryInit ==
    /\ fired = FALSE
    /\ lastFiring = [miss |-> FALSE, before |-> 0, after |-> 0,
                     hadPrev |-> FALSE, cycle |-> "none",
                     at |-> "none", prevAt |-> "none", armed |-> 0]
    /\ cycle = "none"

\* the globals after main has parsed its options (lines 42-59, 343-389):
\* -f sets userRate and rate, which are 8 without it
RateInit ==
    /\ userRate \in UserRates
    /\ rate = userRate
    /\ decay_len = 0
    /\ time_to_print = 0
    /\ sleepTimeUs = 0
    /\ timer = 0
    /\ pc = "args"
    /\ RateHistoryInit

\* the state when main enters its loop with no timer signal delivered
\* before (lines 391-398, 453)
RateAtLoop ==
    /\ userRate \in UserRates
    /\ rate = userRate
    /\ decay_len = DecayLen(rate)
    /\ time_to_print = 0
    /\ sleepTimeUs = Min(SleepTime(rate), 999999)
    /\ timer = sleepTimeUs
    /\ pc = "render"
    /\ RateHistoryInit

\* signal( SIGALRM, time_handler ); sleepTimeUs = ...; ualarm(...), lines 391-398
main_ualarm ==
    /\ pc = "args"
    /\ sleepTimeUs' = (IF SleepTime(rate) >= 1000000 THEN 999999 ELSE SleepTime(rate))
    /\ timer' = sleepTimeUs'
    /\ pc' = "setup"
    /\ UNCHANGED <<decay_len, rate, userRate, time_to_print, fired, lastFiring, cycle>>

\* the JACK set-up that succeeds (lines 400-451, see SpecLife for its exits),
\* then decay_len = (long int)(1.6f / (1.0f/rate)), line 453
main_setup ==
    /\ pc = "setup"
    /\ decay_len' = DecayLen(rate)
    /\ pc' = "render"
    /\ UNCHANGED <<rate, userRate, time_to_print, sleepTimeUs, timer,
                   fired, lastFiring, cycle>>

\* one pass of the for loop of lines 469-485 has drawn every port
main_render ==
    /\ pc = "render"
    /\ pc' = "test"
    /\ cycle' = (IF cycle = "rendering" THEN "finished" ELSE cycle)
    /\ UNCHANGED <<decay_len, rate, userRate, time_to_print, sleepTimeUs, timer,
                   fired, lastFiring>>

\* while (time_to_print==0), line 489
main_test ==
    /\ pc = "test"
    /\ pc' = (IF time_to_print = 0 THEN "usleep_call" ELSE "clear")
    /\ UNCHANGED <<decay_len, rate, userRate, time_to_print, sleepTimeUs, timer,
                   fired, lastFiring, cycle>>

\* usleep(WAITING_SLEEP_TIME) is entered: the process sleeps, line 490
main_usleep ==
    /\ pc = "usleep_call"
    /\ pc' = "usleep"
    /\ UNCHANGED <<decay_len, rate, userRate, time_to_print, sleepTimeUs, timer,
                   fired, lastFiring, cycle>>

\* usleep returns 0 after WAITING_SLEEP_TIME with no signal: the while
\* condition is tested again
usleep_timeout ==
    /\ pc = "usleep"
    /\ pc' = "test"
    /\ UNCHANGED <<decay_len, rate, userRate, time_to_print, sleepTimeUs, timer,
                   fired, lastFiring, cycle>>

\* usleep returns -1 with errno EINTR for a signal other than SIGALRM (a
\* process stopped and continued where the sleep is not restarted, a handler
\* a library installed): errsv==EINTR, break, lines 490-495
usleep_eintr ==
    /\ pc = "usleep"
    /\ pc' = "clear"
    /\ UNCHANGED <<decay_len, rate, userRate, time_to_print, sleepTimeUs, timer,
                   fired, lastFiring, cycle>>

\* mutant: the flag is left set
main_clear_keep ==
    /\ pc = "clear"
    /\ pc' = "render"
    /\ cycle' = "rendering"
    /\ UNCHANGED <<decay_len, rate, userRate, time_to_print, sleepTimeUs, timer,
                   fired, lastFiring>>

\* time_to_print=0; line 502, and the loop begins its next cycle
main_clear ==
    /\ pc = "clear"
    /\ time_to_print' = 0
    /\ pc' = "render"
    /\ cycle' = "rendering"
    /\ UNCHANGED <<decay_len, rate, userRate, sleepTimeUs, timer, fired, lastFiring>>

\* history: time_handler has run, with rate going from b to a.  at is main's
\* position when the signal was delivered, prevAt its position at the run
\* before, armed the interval of the timer that delivered the signal
Fired(m, b, a) ==
    /\ fired' = TRUE
    /\ lastFiring' = [miss |-> m, before |-> b, after |-> a,
                      hadPrev |-> fired, cycle |-> cycle,
                      at |-> pc, prevAt |-> lastFiring.at, armed |-> timer]
    /\ cycle' = "none"

\* mutant: rate is raised without the test against userRate
time_handler_noceil ==
    /\ timer > 0
    /\ pc # "terminated"
    /\ IF time_to_print = 1
       THEN /\ rate' = (IF rate - 1 <= 0 THEN 1 ELSE rate - 1)
            /\ decay_len' = DecayLen(rate')
            /\ sleepTimeUs' = SleepTime(rate')
            /\ timer' = sleepTimeUs'
       ELSE /\ rate' = rate + 1
            /\ UNCHANGED <<decay_len, sleepTimeUs, timer>>
    /\ time_to_print' = 1
    /\ Fired(time_to_print = 1, rate, rate')
    /\ pc' = (IF pc = "usleep" THEN "clear" ELSE pc)
    /\ UNCHANGED userRate

\* SIGALRM is delivered and time_handler runs, lines 308-323.  The handler
\* interrupts main wherever it is; a usleep it interrupts returns -1 with
\* errno EINTR and main leaves its while loop (lines 490-495).  slept, which
\* nothing reads, is not modelled.
time_handler ==
    /\ timer > 0
    /\ pc # "terminated"
    /\ IF time_to_print = 1
       THEN /\ rate' = (IF rate - 1 <= 0 THEN 1 ELSE rate - 1)
            /\ decay_len' = DecayLen(rate')
            /\ sleepTimeUs' = SleepTime(rate')
            /\ timer' = sleepTimeUs'
       ELSE /\ rate' = (IF rate < userRate THEN rate + 1 ELSE rate)
            /\ UNCHANGED <<decay_len, sleepTimeUs, timer>>
    /\ time_to_print' = 1
    /\ Fired(time_to_print = 1, rate, rate')
    /\ pc' = (IF pc = "usleep" THEN "clear" ELSE pc)
    /\ UNCHANGED userRate

(***************************************************************************)
(* display_meter: the peak-hold marker dpeak[] and its age dtime[].  The   *)
(* calls are bounded by MaxTicks per port between two raises (dtime is an  *)
(* int that the code increments without limit).  display_scale: the        *)
(* indices its marks loop writes in scale[] and line[], both of width + 1  *)
(* bytes.                                                                  *)
(***************************************************************************)
MaxTicks == 7

\* the values of main's float db that are drawn: minus infinity (the peak
\* was 0), -20 dB (half of the width), one grid step below 0 dB, and 0 dB
MeterLevels ==
    {NegInf, Db(-20), Db(0) - 1, Db(0)}

INT_MIN == -2147483647 - 1

\* the conversion of main's float db to the parameter int db of
\* display_meter (line 483): a finite value is truncated toward zero; minus
\* infinity is out of the range of int, which is undefined: INT_MIN where
\* the conversion instruction saturates or gives the indefinite integer, 0
\* where it is done modulo 2^32
IntOf(x) ==
    IF x = NegInf THEN {INT_MIN, 0} ELSE {Trunc(x, DbDen)}

\* the conversion of the int db back to float for iec_scale (line 280);
\* (float)INT_MIN is held as NegInf, like every value below the grid
FloatOf(d) ==
    IF d = INT_MIN THEN NegInf ELSE Db(d)

\* for(i=0; i<n; i++) { printf(g); }: n cells g, none for n <= 0
Cells(g, n) == [k \in 1 .. n |-> g]

\* what display_meter prints after "\r", lines 292-302
Printed(sz, dp, w) ==
    Cells("#", sz - 1)
      \o (IF dp = sz THEN <<"I">> ELSE <<"#">> \o Cells(" ", dp - sz - 1) \o <<"I">>)
      \o Cells(" ", w - dp)

\* the state of the meter before main's loop, but for width
MeterIdle ==
    /\ dpeak = [i \in Ports |-> 0]
    /\ dtime = [i \in Ports |-> 0]
    /\ size = [i \in Ports |-> 0]
    /\ sinceRaise = [i \in Ports |-> 0]
    /\ raisedTo = [i \in Ports |-> -1]
    /\ meterPort = 0
    /\ db = NegInf
    /\ out = <<>>
    /\ sameFor = [i \in Ports |-> 0]
    /\ scaleWrites = {}
    /\ lineWrites = {}

MeterInit ==
    /\ width \in 0 .. MaxWidth
    /\ MeterIdle

MeterParked ==
    /\ MeterInit
    /\ width = 0

\* the widths display_scale is called with
MaxScaleWidth == 120

DrawInit ==
    /\ width \in 0 .. MaxScaleWidth
    /\ MeterIdle

\* history: display_meter was called for port i and computed the size sz
Same(i, sz) ==
    sameFor' = [sameFor EXCEPT ![i] = IF @ > 0 /\ sz = size[i] THEN @ + 1 ELSE 1]

\* mutant: the age is incremented before it is compared
display_meter_preinc(d, i) ==
    /\ i < MAX_CHANNELS
    /\ dtime[i] < MaxTicks
    /\ LET sz == iec_scale(FloatOf(d), width) IN
       /\ size' = [size EXCEPT ![i] = sz]
       /\ IF sz > dpeak[i]
          THEN /\ dpeak' = [dpeak EXCEPT ![i] = sz]
               /\ dtime' = [dtime EXCEPT ![i] = 0]
               /\ sinceRaise' = [sinceRaise EXCEPT ![i] = 0]
               /\ raisedTo' = [raisedTo EXCEPT ![i] = sz]
          ELSE /\ dtime' = [dtime EXCEPT ![i] = @ + 1]
               /\ dpeak' = [dpeak EXCEPT ![i] = IF dtime[i] + 1 > decay_len THEN sz ELSE @]
               /\ sinceRaise' = [sinceRaise EXCEPT ![i] = @ + 1]
               /\ UNCHANGED raisedTo
       /\ out' = Printed(sz, dpeak'[i], width)
       /\ Same(i, sz)
    /\ UNCHANGED width

\* mutant: the age is compared with decay_len + 1
display_meter_late(d, i) ==
    /\ i < MAX_CHANNELS
    /\ dtime[i] < MaxTicks
    /\ LET sz == iec_scale(FloatOf(d), width) IN
       /\ size' = [size EXCEPT ![i] = sz]
       /\ IF sz > dpeak[i]
          THEN /\ dpeak' = [dpeak EXCEPT ![i] = sz]
               /\ dtime' = [dtime EXCEPT ![i] = 0]
               /\ sinceRaise' = [sinceRaise EXCEPT ![i] = 0]
               /\ raisedTo' = [raisedTo EXCEPT ![i] = sz]
          ELSE /\ dtime' = [dtime EXCEPT ![i] = @ + 1]
               /\ dpeak' = [dpeak EXCEPT ![i] = IF dtime[i] > decay_len + 1 THEN sz ELSE @]
               /\ sinceRaise' = [sinceRaise EXCEPT ![i] = @ + 1]
               /\ UNCHANGED raisedTo
       /\ out' = Printed(sz, dpeak'[i], width)
       /\ Same(i, sz)
    /\ UNCHANGED width

\* mutant: dpeak follows size down without the test of the age
display_meter_nohold(d, i) ==
    /\ i < MAX_CHANNELS
    /\ dtime[i] < MaxTicks
    /\ LET sz == iec_scale(FloatOf(d), width) IN
       /\ size' = [size EXCEPT ![i] = sz]
       /\ IF sz > dpeak[i]
          THEN /\ dpeak' = [dpeak EXCEPT ![i] = sz]
               /\ dtime' = [dtime EXCEPT ![i] = 0]
               /\ sinceRaise' = [sinceRaise EXCEPT ![i] = 0]
               /\ raisedTo' = [raisedTo EXCEPT ![i] = sz]
          ELSE /\ dtime' = [dtime EXCEPT ![i] = @ + 1]
               /\ dpeak' = [dpeak EXCEPT ![i] = sz]
               /\ sinceRaise' = [sinceRaise EXCEPT ![i] = @ + 1]
               /\ UNCHANGED raisedTo
       /\ out' = Printed(sz, dpeak'[i], width)
       /\ Same(i, sz)
    /\ UNCHANGED width

\* mutant: a larger size resets the age and leaves dpeak
display_meter_noraise(d, i) ==
    /\ i < MAX_CHANNELS
    /\ dtime[i] < MaxTicks
    /\ LET sz == iec_scale(FloatOf(d), width) IN
       /\ size' = [size EXCEPT ![i] = sz]
       /\ IF sz > dpeak[i]
          THEN /\ dtime' = [dtime EXCEPT ![i] = 0]
               /\ sinceRaise' = [sinceRaise EXCEPT ![i] = 0]
               /\ raisedTo' = [raisedTo EXCEPT ![i] = sz]
               /\ UNCHANGED dpeak
          ELSE /\ dtime' = [dtime EXCEPT ![i] = @ + 1]
               /\ dpeak' = [dpeak EXCEPT ![i] = IF dtime[i] > decay_len THEN sz ELSE @]
               /\ sinceRaise' = [sinceRaise EXCEPT ![i] = @ + 1]
               /\ UNCHANGED raisedTo
       /\ out' = Printed(sz, dpeak'[i], width)
       /\ Same(i, sz)
    /\ UNCHANGED width

\* display_meter(db, width, inPortNumber), lines 277-303; d is the
\* parameter int db
display_meter(d, i) ==
    /\ i < MAX_CHANNELS
    /\ dtime[i] < MaxTicks
    /\ LET sz == iec_scale(FloatOf(d), width) IN
       /\ size' = [size EXCEPT ![i] = sz]
       /\ IF sz > dpeak[i]
          THEN /\ dpeak' = [dpeak EXCEPT ![i] = sz]
               /\ dtime' = [dtime EXCEPT ![i] = 0]
               /\ sinceRaise' = [sinceRaise EXCEPT ![i] = 0]
               /\ raisedTo' = [raisedTo EXCEPT ![i] = sz]
          ELSE /\ dtime' = [dtime EXCEPT ![i] = @ + 1]
               /\ dpeak' = [dpeak EXCEPT ![i] = IF dtime[i] > decay_len THEN sz ELSE @]
               /\ sinceRaise' = [sinceRaise EXCEPT ![i] = @ + 1]
               /\ UNCHANGED raisedTo
       /\ out' = Printed(sz, dpeak'[i], width)
       /\ Same(i, sz)
    /\ UNCHANGED width

\* const int marks[11], line 240
marks == <<0, -5, -10, -15, -20, -25, -30, -35, -40, -50, -60>>

\* strlen(mark) after snprintf(mark, 4, "%d", marks[i]): the sign and the
\* digits, three characters at most (lines 256-259)
strlen(m) ==
    Min(3, (IF m < 0 THEN 1 ELSE 0)
             + (IF fabs(m) >= 100 THEN 3 ELSE IF fabs(m) >= 10 THEN 2 ELSE 1))

\* int pos = iec_scale( marks[i], width )-1; line 252
pos(m, w) == iec_scale(Db(m), w) - 1

\* spos as memcpy receives it, lines 260-262
spos(m, w) ==
    LET slen == strlen(m)
        centred == pos(m, w) - (slen \div 2)
        floored == IF centred < 0 THEN 0 ELSE centred
    IN  IF floored + slen > w THEN w - slen ELSE floored

\* display_scale( width ), lines 237-274: the writes of the marks loop
display_scale(w) ==
    /\ scaleWrites' = UNION {spos(marks[k], w) .. (spos(marks[k], w) + strlen(marks[k]) - 1) :
                                k \in DOMAIN marks}
    /\ lineWrites' = {pos(marks[k], w) : k \in DOMAIN marks}

\* main calls display_scale( console_width ), line 476
main_display_scale ==
    /\ display_scale(width)
    /\ UNCHANGED <<width, dpeak, dtime, size, sinceRaise, raisedTo, meterPort, db, out,
                   sameFor>>

\* the meter of one port in main's for loop, lines 471 and 477-484, in the
\* meter mode: db, x, is computed from the peak read and
\* display_meter( db, console_width, inPortNumber ) is called; after the
\* last port the next cycle begins with port 0
main_display(x) ==
    /\ db' = x
    /\ \E d \in IntOf(x) : display_meter(d, meterPort)
    /\ meterPort' = (meterPort + 1) % channels
    /\ UNCHANGED <<scaleWrites, lineWrites>>

(***************************************************************************)
(* main's start-up, its exits and cleanup.  A peer port name is a number   *)
(* from 1 to MaxPeers; 0 is a name no port has.                            *)
(***************************************************************************)
MaxPeers == 2

MaxArgs == 2

Peers == 1 .. MaxPeers

ArgLists == UNION {[1 .. n -> 0 .. MaxPeers] : n \in 0 .. MaxArgs}

peakRest == <<peak, cbPc, inPortNumber, nframes, cbI, s, rdPc, rdPort, tmp,
              recMax, retMax, since, clean, lastRet>>

rateRest == <<decay_len, rate, userRate, time_to_print, sleepTimeUs, timer,
              fired, lastFiring, cycle>>

LifeParked ==
    /\ client = "none"
    /\ conn = [i \in Ports |-> {}]
    /\ args = <<>>
    /\ portTo = 0
    /\ regI = 0
    /\ atexitSet = FALSE
    /\ cleanPort = 0
    /\ cleanupRuns = 0
    /\ closedWithConn = FALSE

\* the process as main starts: no client, no port, argv's port names left
LifeInit ==
    /\ client = "none"
    /\ input_port = [i \in Ports |-> FALSE]
    /\ conn = [i \in Ports |-> {}]
    /\ args \in ArgLists
    /\ portTo = 0
    /\ regI = 0
    /\ atexitSet = FALSE
    /\ cleanPort = 0
    /\ cleanupRuns = 0
    /\ closedWithConn = FALSE

\* jack_client_open returns a client, line 401
jack_client_open_ok ==
    /\ pc = "setup"
    /\ client' = "open"
    /\ regI' = 0
    /\ pc' = "register"
    /\ UNCHANGED <<input_port, conn, args, portTo, atexitSet, cleanPort, cleanupRuns,
                   closedWithConn>>

\* jack_client_open returns 0: exit(1), lines 401-406
jack_client_open_fail ==
    /\ pc = "setup"
    /\ pc' = "exit"
    /\ UNCHANGED <<input_port, lifeVars>>

\* jack_port_register returns a port, line 418
jack_port_register_ok ==
    /\ pc = "register"
    /\ regI < channels
    /\ input_port' = [input_port EXCEPT ![regI] = TRUE]
    /\ regI' = regI + 1
    /\ UNCHANGED <<pc, client, conn, args, portTo, atexitSet, cleanPort, cleanupRuns,
                   closedWithConn>>

\* jack_port_register returns NULL: exit(1), lines 418-423
jack_port_register_fail ==
    /\ pc = "register"
    /\ regI < channels
    /\ pc' = "exit"
    /\ UNCHANGED <<input_port, lifeVars>>

\* atexit( cleanup ); jack_set_process_callback(...), lines 427-430
main_atexit ==
    /\ pc = "register"
    /\ regI >= channels
    /\ atexitSet' = TRUE
    /\ pc' = "activate"
    /\ UNCHANGED <<input_port, client, conn, args, portTo, regI, cleanPort, cleanupRuns,
                   closedWithConn>>

\* jack_activate returns 0, line 432
jack_activate_ok ==
    /\ pc = "activate"
    /\ portTo' = 0
    /\ pc' = "connect"
    /\ UNCHANGED <<input_port, client, conn, args, regI, atexitSet, cleanPort,
                   cleanupRuns, closedWithConn>>

\* jack_activate fails: exit(1), lines 432-435
jack_activate_fail ==
    /\ pc = "activate"
    /\ pc' = "exit"
    /\ UNCHANGED <<input_port, lifeVars>>

\* the input port connect_port uses: if (inPortNumber>=channels) ..., line 169
ConnectTarget == IF portTo >= channels THEN channels - 1 ELSE portTo

\* connect_port finds the port and JACK connects it, lines 166-190, 441-445
connect_port_ok ==
    /\ pc = "connect"
    /\ args # <<>>
    /\ Head(args) \in Peers
    /\ Head(args) \notin conn[ConnectTarget]
    /\ conn' = [conn EXCEPT ![ConnectTarget] = @ \cup {Head(args)}]
    /\ args' = Tail(args)
    /\ portTo' = portTo + 1
    /\ UNCHANGED <<pc, input_port, client, regI, atexitSet, cleanPort, cleanupRuns,
                   closedWithConn>>

\* connect_port: jack_port_by_name returns NULL, or jack_connect fails (JACK
\* refuses, as it does a connection that exists): exit(1), lines 174-189
connect_port_exit ==
    /\ pc = "connect"
    /\ args # <<>>
    /\ pc' = "exit"
    /\ UNCHANGED <<input_port, lifeVars>>

\* no port name is left: decay_len = ..., line 453, and the loop is entered
main_decay_len ==
    /\ pc = "connect"
    /\ args = <<>>
    /\ decay_len' = DecayLen(rate)
    /\ pc' = "render"
    /\ UNCHANGED <<input_port, lifeVars, rate, userRate, time_to_print, sleepTimeUs,
                   timer, fired, lastFiring, cycle>>

\* usleep returns -1 with errno EINVAL: exit(1), lines 496-498
usleep_einval ==
    /\ pc = "usleep"
    /\ pc' = "exit"
    /\ UNCHANGED <<input_port, lifeVars>>

\* exit(1) runs the handlers registered with atexit, then the process ends
exit_handlers ==
    /\ pc = "exit"
    /\ IF atexitSet
       THEN /\ pc' = "cleanup"
            /\ cleanPort' = 0
            /\ cleanupRuns' = cleanupRuns + 1
       ELSE /\ pc' = "terminated"
            /\ UNCHANGED <<cleanPort, cleanupRuns>>
    /\ UNCHANGED <<input_port, client, conn, args, portTo, regI, atexitSet,
                   closedWithConn>>

\* cleanup, one port: every connection of the port is disconnected, lines 149-158
cleanup_port ==
    /\ pc = "cleanup"
    /\ cleanPort < channels
    /\ conn' = [conn EXCEPT ![cleanPort] = IF input_port[cleanPort] THEN {} ELSE @]
    /\ cleanPort' = cleanPort + 1
    /\ UNCHANGED <<pc, input_port, client, args, portTo, regI, atexitSet, cleanupRuns,
                   closedWithConn>>

\* cleanup: jack_client_close(client), line 161; cleanup returns and the
\* process ends
cleanup_close ==
    /\ pc = "cleanup"
    /\ cleanPort >= channels
    /\ client' = "closed"
    /\ closedWithConn' = (\E i \in Ports : conn[i] # {})
    /\ pc' = "terminated"
    /\ UNCHANGED <<input_port, conn, args, portTo, regI, atexitSet, cleanPort,
                   cleanupRuns>>

\* a signal whose action is to terminate the process (SIGINT, SIGTERM, ...:
\* main installs a handler for SIGALRM only) is delivered: the process ends
\* without running the atexit handlers
killed_by_signal ==
    /\ pc # "terminated"
    /\ pc' = "terminated"
    /\ UNCHANGED <<input_port, lifeVars>>

vars == <<scaleVars, peakVars, meterVars, rateVars, lifeVars>>

ScaleNext ==
    \/ \E d \in DbGrid : CallScaleDb(d) /\ UNCHANGED <<peakVars, meterVars, rateVars, lifeVars>>
    \/ \E w \in Widths : CallScaleSize(w) /\ UNCHANGED <<peakVars, meterVars, rateVars, lifeVars>>

\* the parts that SpecScale and SpecPeak do not exercise
Parked ==
    /\ MeterParked
    /\ RateAtLoop
    /\ userRate = DefaultRate
    /\ LifeParked

InitScale ==
    /\ ScaleInit
    /\ PeakInit
    /\ Parked

SpecScale == InitScale /\ [][ScaleNext]_vars

PeakNext ==
    \/ \E n \in 1 .. MaxFrames : process_peak(n) /\ UNCHANGED <<scaleVars, meterVars, rateVars, lifeVars>>
    \/ process_peak_port /\ UNCHANGED <<scaleVars, meterVars, rateVars, lifeVars>>
    \/ \E x \in Samples : process_peak_frame(x) /\ UNCHANGED <<scaleVars, meterVars, rateVars, lifeVars>>
    \/ process_peak_store /\ UNCHANGED <<scaleVars, meterVars, rateVars, lifeVars>>
    \/ read_peak /\ UNCHANGED <<scaleVars, meterVars, rateVars, lifeVars>>
    \/ read_peak_reset /\ UNCHANGED <<scaleVars, meterVars, rateVars, lifeVars>>

InitPeak ==
    /\ ScaleInit
    /\ PeakInit
    /\ Parked

SpecPeak == InitPeak /\ [][PeakNext]_vars

MeterNext ==
    \E x \in MeterLevels :
        main_display(x) /\ UNCHANGED <<scaleVars, peakVars, rateVars, lifeVars>>

InitMeter ==
    /\ ScaleInit
    /\ PeakInit
    /\ MeterInit
    /\ RateAtLoop
    /\ userRate <= MaxRate
    /\ LifeParked

SpecMeter == InitMeter /\ [][MeterNext]_vars

DrawNext ==
    main_display_scale /\ UNCHANGED <<scaleVars, peakVars, rateVars, lifeVars>>

InitDraw ==
    /\ ScaleInit
    /\ PeakInit
    /\ DrawInit
    /\ RateAtLoop
    /\ userRate = DefaultRate
    /\ LifeParked

SpecDraw == InitDraw /\ [][DrawNext]_vars

RateNext ==
    \/ main_ualarm /\ UNCHANGED <<scaleVars, peakVars, meterVars, lifeVars>>
    \/ main_setup /\ UNCHANGED <<scaleVars, peakVars, meterVars, lifeVars>>
    \/ main_render /\ UNCHANGED <<scaleVars, peakVars, meterVars, lifeVars>>
    \/ main_test /\ UNCHANGED <<scaleVars, peakVars, meterVars, lifeVars>>
    \/ main_usleep /\ UNCHANGED <<scaleVars, peakVars, meterVars, lifeVars>>
    \/ usleep_timeout /\ UNCHANGED <<scaleVars, peakVars, meterVars, lifeVars>>
    \/ usleep_eintr /\ UNCHANGED <<scaleVars, peakVars, meterVars, lifeVars>>
    \/ main_clear /\ UNCHANGED <<scaleVars, peakVars, meterVars, lifeVars>>
    \/ time_handler /\ UNCHANGED <<scaleVars, peakVars, meterVars, lifeVars>>

InitRate ==
    /\ ScaleInit
    /\ PeakInit
    /\ MeterParked
    /\ RateInit
    /\ LifeParked

SpecRate == InitRate /\ [][RateNext]_vars

LifeSame == UNCHANGED <<scaleVars, peakRest, meterVars>>

LifeNext ==
    \/ main_ualarm /\ LifeSame /\ UNCHANGED <<input_port, lifeVars>>
    \/ jack_client_open_ok /\ LifeSame /\ UNCHANGED rateRest
    \/ jack_client_open_fail /\ LifeSame /\ UNCHANGED rateRest
    \/ jack_port_register_ok /\ LifeSame /\ UNCHANGED rateRest
    \/ jack_port_register_fail /\ LifeSame /\ UNCHANGED rateRest
    \/ main_atexit /\ LifeSame /\ UNCHANGED rateRest
    \/ jack_activate_ok /\ LifeSame /\ UNCHANGED rateRest
    \/ jack_activate_fail /\ LifeSame /\ UNCHANGED rateRest
    \/ connect_port_ok /\ LifeSame /\ UNCHANGED rateRest
    \/ connect_port_exit /\ LifeSame /\ UNCHANGED rateRest
    \/ main_decay_len /\ LifeSame
    \/ main_render /\ LifeSame /\ UNCHANGED <<input_port, lifeVars>>
    \/ main_test /\ LifeSame /\ UNCHANGED <<input_port, lifeVars>>
    \/ main_usleep /\ LifeSame /\ UNCHANGED <<input_port, lifeVars>>
    \/ usleep_timeout /\ LifeSame /\ UNCHANGED <<input_port, lifeVars>>
    \/ usleep_eintr /\ LifeSame /\ UNCHANGED <<input_port, lifeVars>>
    \/ usleep_einval /\ LifeSame /\ UNCHANGED rateRest
    \/ main_clear /\ LifeSame /\ UNCHANGED <<input_port, lifeVars>>
    \/ time_handler /\ LifeSame /\ UNCHANGED <<input_port, lifeVars>>
    \/ exit_handlers /\ LifeSame /\ UNCHANGED rateRest
    \/ cleanup_port /\ LifeSame /\ UNCHANGED rateRest
    \/ cleanup_close /\ LifeSame /\ UNCHANGED rateRest
    \/ killed_by_signal /\ LifeSame /\ UNCHANGED rateRest

InitLife ==
    /\ ScaleInit
    /\ PeakIdle
    /\ MeterParked
    /\ RateInit
    /\ LifeInit

SpecLife == InitLife /\ [][LifeNext]_vars

\* C3: iec_scale(db, w) is an integer in [0, w], 0 for every db <= -70
\* (minus infinity included) and w for every db >= 0.
IecScaleRange ==
    /\ result \in 0 .. argSize
    /\ (argDb <= Db(-70) => result = 0)
    /\ (argDb >= Db(0) => result = argSize)

IecScaleRangeWitness ==
    argDb = Db(0) /\ argSize = console_width /\ result = 79

\* C4: iec_scale is non-decreasing in db for a fixed width, the band
\* breakpoints included, and non-decreasing in width for a fixed db.
IecScaleMonotone ==
    [][ /\ (argSize' = argSize /\ argDb' >= argDb => result' >= result)
        /\ (argDb' = argDb /\ argSize' >= argSize => result' >= result) ]_vars

IecScaleMonotoneWitness ==
    /\ argSize = console_width
    /\ argDb = Db(-50)
    /\ result = 5

\* C5 as stated: iec_scale(-10, 79) returns 62.
IecScaleMinus10Is62 ==
    argDb = Db(-10) /\ argSize = console_width => result = 62

\* C5 amended: iec_scale(-10, 79) returns 59 (75% of 79 is 59.25).
IecScaleMinus10Is59 ==
    argDb = Db(-10) /\ argSize = console_width => result = 59

IecScaleMinus10Witness ==
    argDb = Db(-10) /\ argSize = console_width /\ result = 59

\* C1: interleaved with read_peak no completed record is lost: whenever no
\* record and no read_peak is under way, the largest value returned so far
\* or the register itself is at least every magnitude recorded so far.
NoRecordLost ==
    (cbPc # "store" /\ rdPc = "idle") =>
        \A i \in Ports : Max(retMax[i], peak[i]) >= recMax[i]

\* C2: with no record overlapping a read_peak, read_peak returns the largest
\* magnitude recorded since the previous read_peak of the port, and 0 when
\* there was none.
ReadReturnsMax ==
    lastRet.clean => lastRet.val = lastRet.expect

ReadReturnsMaxWitness ==
    /\ lastRet.clean
    /\ lastRet.val = MaxSample
    /\ lastRet.expect = MaxSample
    /\ rdPc = "idle"

RateStepsWithinBounds ==
    /\ rate >= 1
    /\ rate <= userRate
    /\ fired =>
        /\ lastFiring.after = rate
        /\ lastFiring.miss =>
              lastFiring.after = Max(lastFiring.before - 1, 1)
        /\ ~lastFiring.miss =>
              lastFiring.after = Min(lastFiring.before + 1, userRate)

RateStepsWitness ==
    /\ userRate = DefaultRate
    /\ fired
    /\ lastFiring.miss
    /\ lastFiring.before = 6
    /\ rate = 5

\* round(1.6 * r)
Round16(r) == (16 * r + 5) \div 10

\* C8: from the start of main's loop on, decay_len is round(1.6 * rate) for
\* the current rate (13 at rate 8, 8 at rate 5).
DecayLenIsRounded ==
    pc \in {"render", "test", "usleep_call", "usleep", "clear"} =>
        decay_len = Round16(rate)

CleanupOnceOnEveryExit ==
    (pc = "terminated" /\ client # "none") =>
        /\ cleanupRuns = 1
        /\ client = "closed"
        /\ ~closedWithConn

\* C11: the wait of main's loop ends only with a tick pending: whenever
\* main has left the wait and is about to clear the flag and begin a render
\* cycle, time_handler has set time_to_print since the flag was last cleared.
WaitEndsOnlyOnTick ==
    pc = "clear" => time_to_print = 1

\* the positions of main after the rendering of a cycle and before the clear
AfterRender == {"test", "usleep_call", "usleep"}

\* C15: a firing that arrives after the rendering has finished is not
\* deferred by the wait: main never sleeps in usleep with time_to_print set,
\* and a firing that finds main in the sleep is not a miss when the firing
\* before it arrived after the rendering.
TickNotDeferredByWait ==
    /\ (pc = "usleep" => time_to_print = 0)
    /\ (fired /\ lastFiring.hadPrev /\ lastFiring.prevAt \in AfterRender
            /\ lastFiring.at = "usleep") => ~lastFiring.miss

\* C16: every interval the timer is armed with, by main and by time_handler
\* on a miss, is at most 999999 microseconds.
TimerAtMost999999 ==
    timer <= 999999

\* C20: a miss never makes the timer faster: the interval time_handler arms
\* on a miss is at least the interval armed before that firing.
MissNeverFaster ==
    (fired /\ lastFiring.miss) => timer >= lastFiring.armed

\* C19: in every reachable state, whatever the interleaving of process_peak
\* with read_peak, peak[i] >= 0, and no step lowers peak[i] but the reset of
\* read_peak, which sets it to 0.
PeakNonNegativeAndRising ==
    /\ [](\A i \in Ports : peak[i] >= 0)
    /\ [][\A i \in Ports : peak'[i] < peak[i] => (MidRead(i) /\ peak'[i] = 0)]_vars

\* process_peak has stored a record between the load and the reset of a
\* read_peak
PeakRisingWitness ==
    /\ rdPc = "reset"
    /\ tmp = 1
    /\ peak[0] = MaxSample
    /\ cbPc = "frame"

\* C12: once display_meter has had the same size c on decay_len + 2 calls
\* in a row for a port, and on every further such call, dpeak of the port
\* equals c; in particular, with c = 0, the marker is at 0 within
\* decay_len + 2 ticks of silence and stays there.
HeldReachesConstantLevel ==
    \A i \in Ports : sameFor[i] >= decay_len + 2 => dpeak[i] = size[i]

HeldReachesConstantLevelWitness ==
    /\ decay_len = 3
    /\ raisedTo[0] = MaxWidth
    /\ sameFor[0] = 5
    /\ sinceRaise[0] = 5
    /\ size[0] = 0
    /\ dpeak[0] = 0

\* C13: for a width w >= 1 display_meter prints after the carriage return
\* exactly w cells, exactly one of them the hold glyph "I".
MeterPrintsWidthCells ==
    (width >= 1 /\ out # <<>>) =>
        /\ Len(out) = width
        /\ Cardinality({k \in DOMAIN out : out[k] = "I"}) = 1

\* C14: a call of display_meter changes dpeak of a port only by raising it
\* to a larger size, with dtime set to 0, or by lowering it when the number
\* of calls since the last raise exceeds decay_len as it is at that call.
HeldChangesOnlyByRaiseOrDecay ==
    [][\A i \in Ports : dpeak'[i] # dpeak[i] =>
          \/ /\ size'[i] > dpeak[i]
             /\ dpeak'[i] = size'[i]
             /\ dtime'[i] = 0
          \/ /\ dpeak'[i] < dpeak[i]
             /\ dpeak'[i] = size'[i]
             /\ sinceRaise'[i] > decay_len]_vars

HeldChangesWitness ==
    /\ decay_len = 1
    /\ raisedTo[0] = 4
    /\ sinceRaise[0] = 3
    /\ size[0] = 2
    /\ dpeak[0] = 2

\* C17: the size display_meter draws for a port, here the port drawn last,
\* is iec_scale of the dB value main computed for it, fraction included.
MeterDrawsScaleOfDb ==
    LET i == (meterPort + channels - 1) % channels
    IN  sameFor[i] > 0 => size[i] = iec_scale(db, width)

\* C18: for a width >= 1 display_scale writes the labels and the tick glyphs
\* only at indices in [0, width).
ScaleWritesInsideLines ==
    (width >= 1 /\ lineWrites # {}) =>
        /\ scaleWrites \subseteq 0 .. (width - 1)
        /\ lineWrites \subseteq 0 .. (width - 1)

\* C21: after every call of display_meter for a port, with the width fixed
\* and not negative, 0 <= size <= dpeak <= width for that port, so neither
\* the count of blanks between the bar and the hold glyph (line 298) nor the
\* count of trailing blanks (line 302) is negative.
SizeWithinHeldWithinWidth ==
    \A i \in Ports : sameFor[i] > 0 =>
        /\ 0 <= size[i]
        /\ size[i] <= dpeak[i]
        /\ dpeak[i] <= width
        /\ (dpeak[i] # size[i] => dpeak[i] - size[i] - 1 >= 0)
        /\ width - dpeak[i] >= 0

SizeWithinHeldWithinWidthWitness ==
    /\ width = MaxWidth
    /\ sameFor[0] > 0
    /\ size[0] = 0
    /\ dpeak[0] = MaxWidth \div 2
    /\ dtime[0] > decay_len

====
